---- MODULE Spec2Model ----
(***************************************************************************)
(* A model of s3_cache.go: the temp-file fetcher (tempKeyGetter), the disk *)
(* cache (diskCachedKeyGetter), the mutability gate                        *)
(* (EvictingMutableKeyGetter), and the bounded LRU with its reaper         *)
(* (lruCachedKeyGetter, boundedDiskCachedKeyGetter).                       *)
(*                                                                         *)
(* The specifications share the variables:                                 *)
(*   Spec      sequential calls of Get / disk get / disk remove over the   *)
(*             cache directory, the base getter being any KeyGetter;       *)
(*   SpecLRU   request threads and the keepClean goroutine of the bounded  *)
(*             LRU over the disk cache, interleaved at the granularity of  *)
(*             lock and channel operations;                                *)
(*   SpecLRUMin the same with keepClean(math.MinInt64);                    *)
(*   SpecLRUSeq the bounded LRU with one request at a time;                *)
(*   SpecFetchFair SpecFetch with the fairness of the Go scheduler;        *)
(*   SpecFetch one tempKeyGetter.get call with its per-key goroutines;     *)
(*   SpecDisk  concurrent gets of the disk cache over the temp-file        *)
(*             fetcher, interleaved at the granularity of system calls.    *)
(*                                                                         *)
(* totalDownloaded and maxBytes are int64 in the source.  The totals of    *)
(* the model are small; maxBytes is a small non-negative number, or        *)
(* math.MinInt64 (reaper.fromMin), for which the difference               *)
(* maxBytes - totalDownloaded wraps around.                                *)
(***************************************************************************)
EXTENDS Integers, Sequences, FiniteSets, TLC

\* ------------------------------------------------------------------ bounds

\* Longest key list a caller passes in one request.
MaxBatch == 2
\* Size in bytes of an origin object.
EntryBytes == 5

Buckets == {"b"}
\* Key names; "a/b" lives in the directory that key "a" names.
Keys == {"a", "a/b", "c"}

\* Key names the requests to the bounded LRU draw from, and their order.
LruKeys == {"c", "d", "e"}
KeyNo(k) == CASE k = "c" -> 1 [] k = "d" -> 2 [] OTHER -> 3
\* The request threads of the bounded LRU, and their order.
Threads == {"t1", "t2"}
ThreadNo(t) == IF t = "t1" THEN 1 ELSE 2
\* Longest key list of a request to the bounded LRU.
MaxLruBatch == 1
\* How many keys the requests to the bounded LRU name in a run.
MaxAsked == 3
\* Capacity of the downloaded channel.
ChanCap == 1
\* The largest maxBytes keepClean is started with, in objects.
MaxBudget == 2

\* Temp files made by the concurrent gets of the disk cache.
MaxTemps == 3

\* ------------------------------------------------------- sequence helpers

RECURSIVE SeqsUpTo(_, _)
SeqsUpTo(S, n) ==
  IF n = 0 THEN {<<>>}
  ELSE LET shorter == SeqsUpTo(S, n - 1)
       IN shorter \cup {Append(s, x) : s \in {t \in shorter : Len(t) = n - 1}, x \in S}

KeyLists == SeqsUpTo(Keys, MaxBatch)

Perms(n) == {p \in [1..n -> 1..n] : \A i, j \in 1..n : p[i] = p[j] => i = j}

IdPerm(n) == [i \in 1..n |-> i]

Range(s) == {s[i] : i \in 1..Len(s)}

\* How many times x occurs in s.
Count(s, x) == Cardinality({i \in 1..Len(s) : s[i] = x})

\* Go's make([]T, n): n zero values.
MakeSeq(n, zero) == [i \in 1..n |-> zero]

\* ---------------------------------------------------------------- results

\* A nil *string.
NilPath == <<>>

\* The zero value of getResult.
ZeroResult ==
  [keyName |-> "", status |-> "", localPath |-> NilPath, bucketName |-> "",
   bytesTransferred |-> 0, md5 |-> ""]

\* The name ioutil.TempFile(os.TempDir(), "s3cache_") gives.
TmpName == "/tmp/s3cache_"

\* h.Sum(nil) of an origin object: two bytes stand for the sixteen of MD5.
ObjectSum == <<212, 29>>

HexDigits ==
  <<"0", "1", "2", "3", "4", "5", "6", "7", "8", "9", "a", "b", "c", "d", "e",
    "f">>

\* The two hex digits of a byte.
HexByte(n) == HexDigits[(n \div 16) + 1] \o HexDigits[(n % 16) + 1]

\* The strings of ss put together with sep between them.
RECURSIVE Join(_, _)
Join(ss, sep) ==
  IF ss = <<>> THEN ""
  ELSE IF Len(ss) = 1 THEN ss[1]
  ELSE ss[1] \o sep \o Join(Tail(ss), sep)

\* hex.EncodeToString: the hex digits of the bytes, nothing between them.
HexEncodeToString(bytes) ==
  Join([i \in 1..Len(bytes) |-> HexByte(bytes[i])], "")

\* hex.Dump: the layout of hexdump -C, an offset, the bytes with blanks
\* between them, and the printable characters between bars.
HexDump(bytes) ==
  "00000000  " \o Join([i \in 1..Len(bytes) |-> HexByte(bytes[i])], " ")
    \o "  |" \o Join([i \in 1..Len(bytes) |-> "."], "") \o "|"

\* What the origin and the local disk do for one key of a base fetch:
\* origin: the read succeeds or fails; io: whether os.Rename of the temp file
\* succeeds when nothing in the cache tree forbids it.
Outcomes ==
  {[ok |-> FALSE, bytes |-> 0, io |-> TRUE]}
    \cup {[ok |-> TRUE, bytes |-> EntryBytes, io |-> i] : i \in BOOLEAN}

\* The getResult of tempKeyGetter.getKey, with the bucket name get adds.
FetchResult(b, k, o) ==
  IF o.ok
    THEN [keyName |-> k,
          status |-> "cache miss, transferred " \o ToString(o.bytes) \o " bytes",
          localPath |-> <<TmpName>>,
          bucketName |-> b,
          bytesTransferred |-> o.bytes,
          md5 |-> HexDump(ObjectSum)]
    ELSE [ZeroResult EXCEPT !.keyName = k, !.status = "origin error",
                            !.bucketName = b]

\* KeyGetter.get of the base: one result per key given, in the order perm
\* (the fan-in of tempKeyGetter.get collects results as they arrive).
BaseGet(b, ks, oc, perm) ==
  [i \in 1..Len(ks) |-> FetchResult(b, ks[perm[i]], oc[perm[i]])]

\* --------------------------------------------------------- the cache tree

\* The directory entries of one bucket: "" is the bucket directory itself
\* (path.Join drops an empty key).
Nodes == Keys \cup LruKeys \cup {""}

\* The cache directory, which os.MkdirAll creates when needed.
Root == "/"

\* path.Dir of a node.
ParentOf(k) == CASE k = "a/b" -> "a" [] k = "" -> Root [] OTHER -> ""

EmptyTree == [n \in Nodes |-> "none"]

\* path.Join(cacheDir, bucketName, keyName) with cacheDir = "".
PathFor(b, k) == IF k = "" THEN b ELSE b \o "/" \o k

\* os.Stat of a node: "ok", "ENOENT", or "ENOTDIR" when a path component is
\* a regular file.
RECURSIVE Stat(_, _)
Stat(f, k) ==
  IF k = Root THEN "ok"
  ELSE LET p == ParentOf(k)
           sp == Stat(f, p)
       IN IF sp # "ok" THEN sp
          ELSE IF p # Root /\ f[p] = "file" THEN "ENOTDIR"
          ELSE IF f[k] = "none" THEN "ENOENT"
          ELSE "ok"

\* diskCachedKeyGetter.has: false only when os.Stat says the path does not
\* exist.
DiskHas(f, k) == Stat(f, k) # "ENOENT"

\* os.Remove: unlinks a file or an empty directory.
OsRemove(f, k) ==
  LET st == Stat(f, k)
  IN IF st # "ok" THEN [fs |-> f, err |-> st]
     ELSE IF f[k] = "dir" /\ \E c \in Nodes : ParentOf(c) = k /\ f[c] # "none"
       THEN [fs |-> f, err |-> "ENOTEMPTY"]
     ELSE [fs |-> [f EXCEPT ![k] = "none"], err |-> ""]

\* diskCachedKeyGetter.remove: !os.IsNotExist(err).
DiskRemove(f, k) ==
  LET r == OsRemove(f, k) IN [fs |-> r.fs, ret |-> r.err # "ENOENT"]

\* os.MkdirAll.
RECURSIVE MkdirAll(_, _)
MkdirAll(f, d) ==
  IF d = Root THEN [fs |-> f, ok |-> TRUE]
  ELSE LET up == MkdirAll(f, ParentOf(d))
       IN IF ~up.ok THEN up
          ELSE IF up.fs[d] = "file" THEN [fs |-> up.fs, ok |-> FALSE]
          ELSE [fs |-> [up.fs EXCEPT ![d] = "dir"], ok |-> TRUE]

\* A rename that refuses to replace a file, as link(2) does.
OsRenameNoReplace(f, k, io) ==
  IF ~io \/ f[k] # "none" THEN [fs |-> f, ok |-> FALSE]
  ELSE [fs |-> [f EXCEPT ![k] = "file"], ok |-> TRUE]

\* os.Rename of a temp file onto node k, whose directory exists: it replaces
\* a file, and fails on a directory or when the disk refuses (io = FALSE).
OsRename(f, k, io) ==
  IF ~io \/ f[k] = "dir" THEN [fs |-> f, ok |-> FALSE]
  ELSE [fs |-> [f EXCEPT ![k] = "file"], ok |-> TRUE]

\* diskCachedKeyGetter.moveToCache; err = "" is a nil error.
MoveToCache(f, b, g, io) ==
  IF g.localPath = NilPath
    THEN [fs |-> f, g |-> g, err |-> "no localPath for given getResult"]
  ELSE LET mk == MkdirAll(f, ParentOf(g.keyName))
       IN IF ~mk.ok
            THEN [fs |-> mk.fs, g |-> g,
                  err |-> "couldn't create directory to move getResult to"]
          ELSE LET rn == OsRename(mk.fs, g.keyName, io)
               IN IF ~rn.ok
                    THEN [fs |-> rn.fs, g |-> g, err |-> "rename failed"]
                  ELSE [fs |-> rn.fs,
                        g |-> [g EXCEPT !.localPath = <<PathFor(b, g.keyName)>>],
                        err |-> ""]

\* ------------------------------------------------------------- disk cache

\* The hit result with a path that leaves the bucket out.
DiskHitResultNoBucket(b, k) ==
  [ZeroResult EXCEPT !.status = "disk cache hit", !.localPath = <<k>>,
                     !.keyName = k, !.bucketName = b]

DiskHitResult(b, k) ==
  [ZeroResult EXCEPT !.status = "disk cache hit", !.localPath = <<PathFor(b, k)>>,
                     !.keyName = k, !.bucketName = b]

\* The keys of K that diskCachedKeyGetter.get finds missing, in order.
Missing(f, K) == SelectSeq(K, LAMBDA k : ~DiskHas(f, k))

\* What diskCachedKeyGetter.get appends for a result of the base that
\* moveToCache answered with m.
CachedResult(m) ==
  IF m.err # "" THEN [m.g EXCEPT !.status = m.err, !.localPath = NilPath]
  ELSE m.g

PromoteOne(acc, m) == [fs |-> m.fs, out |-> Append(acc.out, CachedResult(m))]

\* The second loop of diskCachedKeyGetter.get: promote the base's results,
\* from the i-th on. ios[i] is the disk's answer for the i-th result.
RECURSIVE Promote(_, _, _, _, _)
Promote(acc, b, results, ios, i) ==
  IF i > Len(results) THEN acc
  ELSE Promote(PromoteOne(acc, MoveToCache(acc.fs, b, results[i], ios[i])),
               b, results, ios, i + 1)

\* What a get did: the tree, the results, the key lists handed to the base
\* getter and the results the base gave.
GetDone(p, base, baseOut) ==
  [fs |-> p.fs, out |-> p.out, base |-> base, baseOut |-> baseOut]

\* The first loop of diskCachedKeyGetter.get: a result for every key found.
HitResults(b, hits) == [i \in 1..Len(hits) |-> DiskHitResult(b, hits[i])]

\* diskCachedKeyGetter.get once the base has answered.
DiskGetFetched(f, b, out0, missing, results, ios) ==
  GetDone(Promote([fs |-> f, out |-> out0], b, results, ios, 1), <<missing>>,
          results)

\* The get without its test of len(missing): the base is called every time.
DiskGetMissingAlways(f, b, out0, missing, oc, perm) ==
  DiskGetFetched(f, b, out0, missing, BaseGet(b, missing, oc, perm),
                 [i \in 1..Len(missing) |-> oc[perm[i]].io])

\* diskCachedKeyGetter.get after the partition. oc[j] is what happens to the
\* j-th missing key, perm the order the base answers in.
DiskGetMissing(f, b, out0, missing, oc, perm) ==
  IF Len(missing) > 0
    THEN DiskGetFetched(f, b, out0, missing, BaseGet(b, missing, oc, perm),
                        [i \in 1..Len(missing) |-> oc[perm[i]].io])
    ELSE GetDone([fs |-> f, out |-> out0], <<>>, <<>>)

\* diskCachedKeyGetter.get with its result list made with a length, as
\* make([]getResult, len(keyNames)), instead of a capacity.
DiskGetMadeWithLength(f, b, K, oc, perm) ==
  DiskGetMissing(f, b,
                 MakeSeq(Len(K), ZeroResult)
                   \o HitResults(b, SelectSeq(K, LAMBDA k : DiskHas(f, k))),
                 Missing(f, K), oc, perm)

\* diskCachedKeyGetter.get on the tree f of bucket b.
DiskGet(f, b, K, oc, perm) ==
  DiskGetMissing(f, b, HitResults(b, SelectSeq(K, LAMBDA k : DiskHas(f, k))),
                 Missing(f, K), oc, perm)

\* ------------------------------------------------------- mutability gate

\* What a ShouldEvicter may answer: (evict, err).
OracleAnswers == [evict : BOOLEAN, err : BOOLEAN]

\* The ETag the origin lists for an object: the hex digits of its MD5
\* between double quotes, as a sequence of its parts.
ETag(sum) == <<"\"", HexEncodeToString(sum), "\"">>

\* md5For: the listing fails, or the ETag without its first and last
\* character.
Md5For(listed, etag) ==
  IF listed THEN [md5 |-> Join(SubSeq(etag, 2, Len(etag) - 1), ""), err |-> FALSE]
  ELSE [md5 |-> "", err |-> TRUE]

\* md5ShouldEvicter.ShouldEvict on the cached result r, cur being md5For's
\* answer.
Md5ShouldEvict(r, cur) ==
  IF cur.err THEN [evict |-> FALSE, err |-> TRUE]
  ELSE [evict |-> r.md5 # cur.md5, err |-> FALSE]

\* The test of EvictingMutableKeyGetter.Get that keeps a cached result.
KeepCached(a) == a.err /\ ~a.evict

\* The iteration without its call of remove.
GateStepNoRemove(st, r, mutable, a) ==
  IF ~mutable THEN [st EXCEPT !.out = Append(@, r)]
  ELSE LET asked == [st EXCEPT !.asked = Append(@, r.keyName)]
       IN IF KeepCached(a)
            THEN [asked EXCEPT !.out = Append(@, r)]
            ELSE [asked EXCEPT !.removed = Append(@, r.keyName),
                               !.absents = Append(@, r.keyName)]

\* The iteration without its test of mutableBucket.
GateStepNoMutableTest(st, r, mutable, a) ==
  LET asked == [st EXCEPT !.asked = Append(@, r.keyName)]
  IN IF KeepCached(a)
       THEN [asked EXCEPT !.out = Append(@, r)]
       ELSE [asked EXCEPT !.fs = DiskRemove(@, r.keyName).fs,
                          !.removed = Append(@, r.keyName),
                          !.absents = Append(@, r.keyName)]

\* One iteration of the loop of EvictingMutableKeyGetter.Get, on the cached
\* result r, to which the oracle answers a.
GateStep(st, r, mutable, a) ==
  IF ~mutable THEN [st EXCEPT !.out = Append(@, r)]
  ELSE LET asked == [st EXCEPT !.asked = Append(@, r.keyName)]
       IN IF KeepCached(a)
            THEN [asked EXCEPT !.out = Append(@, r)]
            ELSE [asked EXCEPT !.fs = DiskRemove(@, r.keyName).fs,
                               !.removed = Append(@, r.keyName),
                               !.absents = Append(@, r.keyName)]

\* The loop of EvictingMutableKeyGetter.Get over the cached results, from
\* the i-th on. ans[i] answers ShouldEvict for the i-th cached result; it is
\* not consulted for an immutable request.
RECURSIVE GateLoop(_, _, _, _)
GateLoop(st, mutable, ans, i) ==
  IF i > Len(st.cached) THEN st
  ELSE GateLoop(GateStep(st, st.cached[i], mutable,
                         IF mutable THEN ans[i] ELSE [evict |-> FALSE, err |-> FALSE]),
                mutable, ans, i + 1)

\* EvictingMutableKeyGetter.Get before its loop: c is the get of the present
\* keys.
GateStart(c, K, absents) ==
  [fs |-> c.fs, out |-> MakeSeq(Len(K), ZeroResult), absents |-> absents,
   removed |-> <<>>, asked |-> <<>>, base |-> c.base, baseOut |-> c.baseOut,
   cached |-> c.out]

\* EvictingMutableKeyGetter.Get up to the refetch: the partition, the get of
\* the present keys and the loop over them.
GateFirst(f, b, K, mutable, ans) ==
  GateLoop(GateStart(DiskGet(f, b, SelectSeq(K, LAMBDA k : DiskHas(f, k)),
                             <<>>, <<>>),
                     K, SelectSeq(K, LAMBDA k : ~DiskHas(f, k))),
           mutable, ans, 1)

GateMerge(st, fetcht) ==
  [st EXCEPT !.fs = fetcht.fs, !.out = @ \o fetcht.out,
             !.base = @ \o fetcht.base, !.baseOut = @ \o fetcht.baseOut]

\* The end of EvictingMutableKeyGetter.Get: the get of the absent keys.
GateRefetch(st, b, oc, perm) ==
  IF Len(st.absents) > 0
    THEN GateMerge(st, DiskGet(st.fs, b, st.absents, oc, perm))
    ELSE st

\* EvictingMutableKeyGetter.Get.
GateGet(f, b, K, mutable, ans, oc, perm) ==
  GateRefetch(GateFirst(f, b, K, mutable, ans), b, oc, perm)

\* ------------------------------------------------------------------ state

VARIABLES
  fs,      \* the cache directory: per bucket, the kind of each node
  out,     \* the result list the last call returned
  call,    \* the last call: its arguments, the tree before it, what it did
  fetch,   \* the running tempKeyGetter.get: its arguments and its out slice
  tasks,   \* the goroutines of that get, one per key
  crashed, \* a goroutine panicked and nothing recovered: the process is gone
  lru,     \* lruCachedKeyGetter: list elements, recency list, bucket maps
  mu,      \* its sync.RWMutex: the writer and the readers holding it
  chanq,   \* the values waiting in the downloaded channel
  reaper,  \* the keepClean goroutine: position, totalDownloaded, maxBytes
  thr,     \* the request threads inside boundedDiskCachedKeyGetter.get
  asked,   \* how many keys the requests to the bounded LRU have named
  overlap, \* two requests to the bounded LRU have run at the same time
  promoted, \* per bucket and key, the local path the last get that moved the
            \* key into the cache returned, until a remove of the key is called
  dthr,    \* the request threads inside diskCachedKeyGetter.get
  inodes,  \* the files ioutil.TempFile has made: bytes written, copy finished
  content  \* per bucket and node, the file (an index of inodes) linked there

fetchVars == <<fetch, tasks, crashed>>

lruVars == <<lru, mu, chanq, reaper, thr, asked, overlap>>

diskVars == <<dthr, inodes, content>>

vars ==
  <<fs, out, call, fetch, tasks, crashed, lru, mu, chanq, reaper, thr, asked,
    overlap, promoted, dthr, inodes, content>>

NoCall ==
  [op |-> "none", bucket |-> "", keys |-> <<>>, mutable |-> FALSE, ans |-> <<>>,
   pre |-> EmptyTree, base |-> <<>>, baseOut |-> <<>>, removed |-> <<>>,
   asked |-> <<>>]

NoFetch == [phase |-> "idle", bucket |-> "", keys |-> <<>>, out |-> <<>>]

\* No tempKeyGetter.get is running.
FetchIdle ==
  /\ fetch = NoFetch
  /\ tasks = <<>>
  /\ crashed = FALSE

\* A key of a bucket map: "" is the zero value make([]string, n) holds.
MapKeys == LruKeys \cup {""}

\* A bucket map without entries; 0 is no element.
EmptyMap == [k \in MapKeys |-> 0]

\* The lruCachedKeyGetter with an empty cache map and an empty list.
EmptyLru ==
  [nodes |-> <<>>, list |-> <<>>, maps |-> <<>>, cache |-> [b \in Buckets |-> 0]]

IdleThread ==
  [pc |-> "idle", bucket |-> "", keys |-> <<>>, i |-> 0, known |-> <<>>,
   missing |-> <<>>, out |-> <<>>, newdled |-> 0, phase |-> "", gk |-> <<>>,
   gi |-> 0, gbucket |-> 0, gout |-> <<>>, gmiss |-> <<>>, gres |-> <<>>,
   gidx |-> {}]

\* The bounded LRU with keepClean started and no request running.  The
\* int64 argument of keepClean is maxBytes when fromMin is FALSE, and
\* math.MinInt64 + maxBytes when it is TRUE.
LruIdleFrom(fromMin, maxBytes) ==
  /\ lru = EmptyLru
  /\ mu = [writer |-> "none", readers |-> {}]
  /\ chanq = <<>>
  /\ reaper = [pc |-> "recv", total |-> 0, maxBytes |-> maxBytes,
               fromMin |-> fromMin]
  /\ thr = [t \in Threads |-> IdleThread]
  /\ asked = 0
  /\ overlap = FALSE

\* The bounded LRU with keepClean(maxBytes) started and no request running.
LruIdle(maxBytes) == LruIdleFrom(FALSE, maxBytes)

NonePromoted == [b \in Buckets |-> [k \in Nodes |-> NilPath]]

\* A result that moveToCache has moved into the cache.
Moved(r) == r.localPath # NilPath /\ r.status # "disk cache hit"

\* promoted after the removes of the keys in removed and then a get that
\* returned rs.
PromotedAfter(pr, removed, rs) ==
  [k \in Nodes |->
     IF \E i \in 1..Len(rs) : rs[i].keyName = k /\ Moved(rs[i])
       THEN (CHOOSE r \in Range(rs) : r.keyName = k /\ Moved(r)).localPath
     ELSE IF k \in Range(removed) THEN NilPath
     ELSE pr[k]]

\* A request thread that is not inside diskCachedKeyGetter.get.
IdleDiskThread ==
  [pc |-> "idle", bucket |-> "", key |-> "", tmp |-> 0, io |-> TRUE,
   base |-> ZeroResult, result |-> ZeroResult]

\* No request to the disk cache is running and no temp file has been made.
DiskIdle ==
  /\ dthr = [t \in Threads |-> IdleDiskThread]
  /\ inodes = <<>>
  /\ content = [b \in Buckets |-> [n \in Nodes |-> 0]]

Init ==
  /\ fs = [b \in Buckets |-> EmptyTree]
  /\ out = <<>>
  /\ call = NoCall
  /\ FetchIdle
  /\ LruIdle(0)
  /\ promoted = NonePromoted
  /\ DiskIdle

\* The number of keys the last get of Get hands to the base.
Refetched(first) == Len(Missing(first.fs, first.absents))

GetReturns(b, K, mutable, ans, r) ==
  /\ UNCHANGED <<fetchVars, lruVars, diskVars>>
  /\ promoted' = [promoted EXCEPT ![b] = PromotedAfter(@, r.removed, r.out)]
  /\ fs' = [fs EXCEPT ![b] = r.fs]
  /\ out' = r.out
  /\ call' = [op |-> "Get", bucket |-> b, keys |-> K, mutable |-> mutable,
              ans |-> ans, pre |-> fs[b], base |-> r.base,
              baseOut |-> r.baseOut, removed |-> r.removed, asked |-> r.asked]

GetRuns(b, K, mutable, ans, n) ==
  \E oc \in [1..n -> Outcomes], perm \in Perms(n) :
    GetReturns(b, K, mutable, ans, GateGet(fs[b], b, K, mutable, ans, oc, perm))

\* A caller runs EvictingMutableKeyGetter.Get(b, K, mutable).
CallGet ==
  /\ call.op = "none"
  /\ \E b \in Buckets, K \in KeyLists, mutable \in BOOLEAN :
       \E ans \in [1..(IF mutable
                         THEN Len(SelectSeq(K, LAMBDA k : DiskHas(fs[b], k)))
                         ELSE 0) -> OracleAnswers] :
         GetRuns(b, K, mutable, ans,
                 Refetched(GateFirst(fs[b], b, K, mutable, ans)))

DiskGetReturns(b, K, r) ==
  /\ UNCHANGED <<fetchVars, lruVars, diskVars>>
  /\ promoted' = [promoted EXCEPT ![b] = PromotedAfter(@, <<>>, r.out)]
  /\ fs' = [fs EXCEPT ![b] = r.fs]
  /\ out' = r.out
  /\ call' = [NoCall EXCEPT !.op = "disk.get", !.bucket = b, !.keys = K,
                            !.pre = fs[b], !.base = r.base,
                            !.baseOut = r.baseOut]

DiskGetRuns(b, K, n) ==
  \E oc \in [1..n -> Outcomes], perm \in Perms(n) :
    DiskGetReturns(b, K, DiskGet(fs[b], b, K, oc, perm))

\* A caller runs diskCachedKeyGetter.get(b, K).
CallDiskGet ==
  /\ call.op = "none"
  /\ \E b \in Buckets, K \in KeyLists :
       DiskGetRuns(b, K, Len(Missing(fs[b], K)))

\* A caller runs diskCachedKeyGetter.remove(b, k).
CallDiskRemove ==
  /\ call.op = "none"
  /\ UNCHANGED <<fetchVars, lruVars, diskVars>>
  /\ \E b \in Buckets, k \in Keys :
    LET r == DiskRemove(fs[b], k)
    IN /\ fs' = [fs EXCEPT ![b] = r.fs]
       /\ out' = <<>>
       /\ promoted' = [promoted EXCEPT ![b] = PromotedAfter(@, <<k>>, <<>>)]
       /\ call' = [NoCall EXCEPT !.op = "disk.remove", !.bucket = b,
                                 !.keys = <<k>>, !.pre = fs[b],
                                 !.removed = <<k>>]

\* The call returns: the caller has the result list, and the next call may
\* start.
Return ==
  /\ call.op # "none"
  /\ call' = NoCall
  /\ out' = <<>>
  /\ UNCHANGED <<fs, fetchVars, lruVars, diskVars, promoted>>

Next == CallGet \/ CallDiskGet \/ CallDiskRemove \/ Return

Spec == Init /\ [][Next]_vars

\* ------------------------------------------------- tempKeyGetter.get, live

\* What keyReaderGetter.getKeyReader returns: a reader or nil, and whether
\* the error is set.  s3KeyReaderGetter returns goamz's GetReader, whose
\* reader is nil whenever its error is not.
OpenOutcomes ==
  {[rc |-> "reader", err |-> FALSE], [rc |-> "reader", err |-> TRUE],
   [rc |-> "nil", err |-> TRUE]}

\* getKey's result when it returns early with err.Error() as the status.
FailResult(k, text) == [ZeroResult EXCEPT !.keyName = k, !.status = text]

\* getKey's result when io.Copy has written the whole object.
CopiedResult(k) ==
  [FetchResult("", k, [ok |-> TRUE, bytes |-> EntryBytes, io |-> TRUE])
     EXCEPT !.bucketName = ""]

NewTask(k) ==
  [pc |-> "open", key |-> k, result |-> [ZeroResult EXCEPT !.keyName = k],
   fail |-> ""]

InitFetch ==
  /\ fs = [b \in Buckets |-> EmptyTree]
  /\ out = <<>>
  /\ call = NoCall
  /\ FetchIdle
  /\ LruIdle(0)
  /\ promoted = NonePromoted
  /\ DiskIdle

\* get makes out and inbox and starts one goroutine per key.
FetchCall ==
  /\ ~crashed
  /\ fetch.phase = "idle"
  /\ \E b \in Buckets, K \in KeyLists :
       /\ fetch' = [phase |-> "collect", bucket |-> b, keys |-> K, out |-> <<>>]
       /\ tasks' = [i \in 1..Len(K) |-> NewTask(K[i])]
  /\ UNCHANGED <<lruVars, diskVars, promoted, fs, out, call, crashed>>

\* The task set to its next position.
TaskAt(i, pc, result, fail) ==
  tasks' = [tasks EXCEPT ![i] = [@ EXCEPT !.pc = pc, !.result = result,
                                          !.fail = fail]]

\* getKeyReader and the defer of rc.Close(): a method of a nil interface
\* value is a run-time panic, which nothing recovers.
TaskOpened(i, o) ==
  IF o.rc = "nil"
    THEN /\ TaskAt(i, "panic", tasks[i].result, "open")
         /\ crashed' = TRUE
    ELSE /\ crashed' = crashed
         /\ IF o.err
              THEN TaskAt(i, "send", FailResult(tasks[i].key, "open error"),
                          "open")
              ELSE TaskAt(i, "temp", tasks[i].result, "")

TaskOpen(i) ==
  /\ ~crashed
  /\ tasks[i].pc = "open"
  /\ \E o \in OpenOutcomes : TaskOpened(i, o)
  /\ UNCHANGED <<lruVars, diskVars, promoted, fs, out, call, fetch>>

\* ioutil.TempFile; Close of a nil *os.File only returns an error.
TaskTemp(i) ==
  /\ ~crashed
  /\ tasks[i].pc = "temp"
  /\ \E ok \in BOOLEAN :
       IF ok THEN TaskAt(i, "copy", tasks[i].result, "")
             ELSE TaskAt(i, "send",
                         FailResult(tasks[i].key, "temp file error"), "temp")
  /\ UNCHANGED <<lruVars, diskVars, promoted, fs, out, call, fetch, crashed>>

\* io.Copy into the temp file and the hash.
TaskCopy(i) ==
  /\ ~crashed
  /\ tasks[i].pc = "copy"
  /\ \E ok \in BOOLEAN :
       IF ok THEN TaskAt(i, "send", CopiedResult(tasks[i].key), "")
             ELSE TaskAt(i, "send", FailResult(tasks[i].key, "copy error"),
                         "copy")
  /\ UNCHANGED <<lruVars, diskVars, promoted, fs, out, call, fetch, crashed>>

\* The unbuffered inbox: task i sends as get receives, sets the bucket name
\* and appends.
Collect(i) ==
  /\ ~crashed
  /\ fetch.phase = "collect"
  /\ Len(fetch.out) < Len(fetch.keys)
  /\ tasks[i].pc = "send"
  /\ fetch' = [fetch EXCEPT !.out =
                 Append(@, [tasks[i].result EXCEPT !.bucketName = fetch.bucket])]
  /\ tasks' = [tasks EXCEPT ![i] = [@ EXCEPT !.pc = "done"]]
  /\ UNCHANGED <<lruVars, diskVars, promoted, fs, out, call, crashed>>

\* get with a receive loop that runs once too few.
FetchReturnEarly ==
  /\ ~crashed
  /\ fetch.phase = "collect"
  /\ Len(fetch.out) + 1 >= Len(fetch.keys)
  /\ fetch' = [fetch EXCEPT !.phase = "returned"]
  /\ UNCHANGED <<lruVars, diskVars, promoted, fs, out, call, tasks, crashed>>

\* get has received len(keyNames) results and returns out.
FetchReturn ==
  /\ ~crashed
  /\ fetch.phase = "collect"
  /\ Len(fetch.out) = Len(fetch.keys)
  /\ fetch' = [fetch EXCEPT !.phase = "returned"]
  /\ UNCHANGED <<lruVars, diskVars, promoted, fs, out, call, tasks, crashed>>

\* The caller is done with the results; the next get may start.
FetchDone ==
  /\ ~crashed
  /\ fetch.phase = "returned"
  /\ fetch' = NoFetch
  /\ tasks' = <<>>
  /\ UNCHANGED <<lruVars, diskVars, promoted, fs, out, call, crashed>>

NextFetch ==
  \/ FetchCall
  \/ \E i \in 1..Len(tasks) : TaskOpen(i)
  \/ \E i \in 1..Len(tasks) : TaskTemp(i)
  \/ \E i \in 1..Len(tasks) : TaskCopy(i)
  \/ \E i \in 1..Len(tasks) : Collect(i)
  \/ FetchReturn
  \/ FetchDone

SpecFetch == InitFetch /\ [][NextFetch]_vars

\* The next step of the goroutine of the i-th key, if get has started one.
TaskStep(i) ==
  /\ i \in 1..Len(tasks)
  /\ (TaskOpen(i) \/ TaskTemp(i) \/ TaskCopy(i) \/ Collect(i))

\* The Go scheduler runs every goroutine that can take a step: each task's
\* steps, the rendezvous on the inbox, and the return of get.  The caller
\* (FetchCall, FetchDone) is under no obligation.
FetchFairness ==
  /\ \A i \in 1..MaxBatch : WF_vars(TaskStep(i))
  /\ WF_vars(FetchReturn)

SpecFetchFair == SpecFetch /\ FetchFairness

\* ---------------------------------------------------------- the bounded LRU

\* The key lists of the requests to the bounded LRU.
LruKeyLists == SeqsUpTo(LruKeys, MaxLruBatch) \ {<<>>}

\* The values keepClean may be started with.
Budgets == {n * EntryBytes : n \in 1..MaxBudget}

\* What the bounded LRU leaves alone.
gateVars ==
  <<out, call, fetch, tasks, crashed, promoted, dthr, inodes, content>>

InitLRU ==
  /\ fs = [b \in Buckets |-> EmptyTree]
  /\ out = <<>>
  /\ call = NoCall
  /\ FetchIdle
  /\ promoted = NonePromoted
  /\ DiskIdle
  /\ \E maxBytes \in Budgets : LruIdle(maxBytes)

\* keepClean started with math.MinInt64, the least int64.
InitLRUMin ==
  /\ fs = [b \in Buckets |-> EmptyTree]
  /\ out = <<>>
  /\ call = NoCall
  /\ FetchIdle
  /\ promoted = NonePromoted
  /\ DiskIdle
  /\ LruIdleFrom(TRUE, 0)

\* keepClean's test totalDownloaded > maxBytes for the total given; the
\* totals of the model are far above math.MinInt64.
OverBudget(r, total) == IF r.fromMin THEN TRUE ELSE total > r.maxBytes

\* keepClean's test maxBytes-totalDownloaded > 0 in int64: a difference below
\* math.MinInt64 wraps around to a positive number.
RoomLeft(r) ==
  IF r.fromMin THEN r.maxBytes - r.total < 0 ELSE r.maxBytes - r.total > 0

\* lruCachedKeyGetter.has, which takes no lock.
LruHas(l, b, k) == l.cache[b] # 0 /\ l.maps[l.cache[b]][k] # 0

\* list.MoveToFront of the element id; an element not in the list stays out.
MoveToFront(list, id) ==
  IF \E i \in 1..Len(list) : list[i] = id
    THEN <<id>> \o SelectSeq(list, LAMBDA e : e # id)
    ELSE list

\* The RWMutex can be locked for writing.
MuFree == mu.writer = "none" /\ mu.readers = {}

RECURSIVE SumBytes(_)
SumBytes(rs) ==
  IF rs = <<>> THEN 0 ELSE Head(rs).bytesTransferred + SumBytes(Tail(rs))

\* The thread calls lruCachedKeyGetter.get(bucket, keyNames).
EnterLruGet(th, phase, keyNames) ==
  [th EXCEPT !.pc = "g_bucket", !.phase = phase, !.gk = keyNames, !.gi = 0,
             !.gbucket = 0, !.gout = <<>>, !.gmiss = <<>>, !.gres = <<>>,
             !.gidx = {}]

\* boundedDiskCachedKeyGetter.get from its declarations to the partition loop.
NewGet(b, K) ==
  [IdleThread EXCEPT !.pc = "has", !.bucket = b, !.keys = K, !.i = 1,
                     !.known = MakeSeq(Len(K) \div 2, ""),
                     !.missing = MakeSeq(Len(K) \div 2, ""),
                     !.out = MakeSeq(Len(K), ZeroResult)]

\* The partition loop ends with the call lru.get(bucketName, known).
AfterPartition(th) ==
  IF th.i > Len(th.keys) THEN EnterLruGet(th, "known", th.known) ELSE th

\* One iteration of the partition loop, has being lru.has's answer.
Partitioned(th, has) ==
  [th EXCEPT !.i = @ + 1,
             !.known = IF has THEN Append(@, th.keys[th.i]) ELSE @,
             !.missing = IF has THEN @ ELSE Append(@, th.keys[th.i])]

\* lruCachedKeyGetter.get returns th.gout to boundedDiskCachedKeyGetter.get:
\* the first call's results are appended and the second call starts, the
\* second call's results are appended and their bytes summed.
LruGetReturn(th) ==
  IF th.phase = "known"
    THEN EnterLruGet([th EXCEPT !.out = @ \o th.gout], "missing", th.missing)
    ELSE [th EXCEPT !.pc = "send", !.out = @ \o th.gout,
                    !.newdled = SumBytes(th.gout), !.phase = "", !.gk = <<>>,
                    !.gi = 0, !.gbucket = 0, !.gout = <<>>, !.gmiss = <<>>,
                    !.gres = <<>>, !.gidx = {}]

\* Where lruCachedKeyGetter.get goes after an iteration of its lookup loop.
AfterLookup(th) ==
  IF th.gi <= Len(th.gk) THEN [th EXCEPT !.pc = "g_rlock"]
  ELSE IF Len(th.gmiss) > 0 THEN [th EXCEPT !.pc = "g_base"]
  ELSE LruGetReturn(th)

\* lruCachedKeyGetter.get has its bucket map and makes out and missing.
LruGetLocals(th, bucket) ==
  AfterLookup([th EXCEPT !.gbucket = bucket, !.gi = 1,
                         !.gout = MakeSeq(Len(th.gk), ZeroResult),
                         !.gmiss = MakeSeq(Len(th.gk) \div 2, "")])

\* The lookup loop with a hit that keeps the stored status.
LookedKeepsStatus(th, id, nodes) ==
  IF id # 0
    THEN [th EXCEPT !.gi = @ + 1, !.gout = Append(@, nodes[id])]
    ELSE [th EXCEPT !.gi = @ + 1, !.gmiss = Append(@, th.gk[th.gi])]

\* One iteration of the lookup loop, id being bucket[keyName] (0: not had).
Looked(th, id, nodes) ==
  IF id # 0
    THEN [th EXCEPT !.gi = @ + 1,
                    !.gout = Append(@, [nodes[id] EXCEPT !.status = "cache_hit"])]
    ELSE [th EXCEPT !.gi = @ + 1, !.gmiss = Append(@, th.gk[th.gi])]

\* PushFront(result) and bucket[result.keyName] = resultElem.
InstallOne(l, bucket, result) ==
  [l EXCEPT !.nodes = Append(@, result),
            !.list = <<Len(l.nodes) + 1>> \o @,
            !.maps[bucket][result.keyName] = Len(l.nodes) + 1]

\* The install loop of lruCachedKeyGetter.get, from the i-th result on.
RECURSIVE Install(_, _, _, _)
Install(l, bucket, results, i) ==
  IF i > Len(results) THEN l
  ELSE Install(InstallOne(l, bucket, results[i]), bucket, results, i + 1)

\* The keys some request has named so far: those of the running requests
\* and those of the list elements.
KeysSeen ==
  UNION {Range(thr[t].keys) : t \in Threads}
    \cup ({lru.nodes[i].keyName : i \in 1..Len(lru.nodes)} \cap LruKeys)

\* Key names are interchangeable: a request names a key no request has named
\* before only if it is the next one in order, n keys being named already.
RECURSIVE InKeyOrder(_, _)
InKeyOrder(K, n) ==
  IF K = <<>> THEN TRUE
  ELSE /\ KeyNo(Head(K)) <= n + 1
       /\ InKeyOrder(Tail(K), IF KeyNo(Head(K)) = n + 1 THEN n + 1 ELSE n)

SetThr(t, th) == thr' = [thr EXCEPT ![t] = th]

\* A request enters boundedDiskCachedKeyGetter.get(b, K) on the first thread
\* that is free.
BGetStart(t) ==
  /\ thr[t].pc = "idle"
  /\ \A u \in Threads : thr[u].pc = "idle" => ThreadNo(t) <= ThreadNo(u)
  /\ \E b \in Buckets, K \in LruKeyLists :
       /\ asked + Len(K) <= MaxAsked
       /\ InKeyOrder(K, Cardinality(KeysSeen))
       /\ asked' = asked + Len(K)
       /\ overlap' = (overlap \/ \E u \in Threads : thr[u].pc # "idle")
       /\ SetThr(t, AfterPartition(NewGet(b, K)))
  /\ UNCHANGED <<gateVars, fs, lru, mu, chanq, reaper>>

\* One iteration of the partition loop: lru.has reads the maps unlocked.
BGetHas(t) ==
  /\ thr[t].pc = "has"
  /\ SetThr(t, AfterPartition(
                 Partitioned(thr[t],
                             LruHas(lru, thr[t].bucket, thr[t].keys[thr[t].i]))))
  /\ UNCHANGED <<gateVars, fs, lru, mu, chanq, reaper, asked, overlap>>

\* The keys of the call that the index holds as the call begins.
InIndexAtCall(th) == {k \in Range(th.gk) : LruHas(lru, th.bucket, k)}

\* lruCachedKeyGetter.get reads m.cache[bucketName], unlocked; gidx keeps
\* which of its keys the index held at this first statement of the call.
LruGetBucket(t) ==
  /\ thr[t].pc = "g_bucket"
  /\ SetThr(t, IF lru.cache[thr[t].bucket] = 0
                 THEN [thr[t] EXCEPT !.pc = "g_mklock"]
                 ELSE LruGetLocals([thr[t] EXCEPT !.gidx = InIndexAtCall(thr[t])],
                                   lru.cache[thr[t].bucket]))
  /\ UNCHANGED <<gateVars, fs, lru, mu, chanq, reaper, asked, overlap>>

\* m.Lock() before the bucket map is made.
LruGetMkLock(t) ==
  /\ thr[t].pc = "g_mklock"
  /\ MuFree
  /\ mu' = [mu EXCEPT !.writer = t]
  /\ SetThr(t, [thr[t] EXCEPT !.pc = "g_mk"])
  /\ UNCHANGED <<gateVars, fs, lru, chanq, reaper, asked, overlap>>

\* The bucket map is made and stored in m.cache; m.Unlock().
LruGetMk(t) ==
  /\ thr[t].pc = "g_mk"
  /\ lru' = [lru EXCEPT !.maps = Append(@, EmptyMap),
                        !.cache[thr[t].bucket] = Len(lru.maps) + 1]
  /\ mu' = [mu EXCEPT !.writer = "none"]
  /\ SetThr(t, LruGetLocals(thr[t], Len(lru.maps) + 1))
  /\ UNCHANGED <<gateVars, fs, chanq, reaper, asked, overlap>>

\* m.RLock() of the lookup loop.
LruGetRLock(t) ==
  /\ thr[t].pc = "g_rlock"
  /\ mu.writer = "none"
  /\ mu' = [mu EXCEPT !.readers = @ \cup {t}]
  /\ SetThr(t, [thr[t] EXCEPT !.pc = "g_look"])
  /\ UNCHANGED <<gateVars, fs, lru, chanq, reaper, asked, overlap>>

\* The lookup under the read lock: a hit moves the element to the front and
\* appends its value as "cache_hit", a miss appends the key to missing;
\* m.RUnlock().
LruGetLooked(t, id) ==
  /\ lru' = IF id # 0 THEN [lru EXCEPT !.list = MoveToFront(@, id)] ELSE lru
  /\ mu' = [mu EXCEPT !.readers = @ \ {t}]
  /\ SetThr(t, AfterLookup(Looked(thr[t], id, lru.nodes)))

LruGetLook(t) ==
  /\ thr[t].pc = "g_look"
  /\ LruGetLooked(t, lru.maps[thr[t].gbucket][thr[t].gk[thr[t].gi]])
  /\ UNCHANGED <<gateVars, fs, chanq, reaper, asked, overlap>>

\* m.base.get(bucketName, missing) has returned r; no lock is held.
LruGetBased(t, r) ==
  /\ fs' = [fs EXCEPT ![thr[t].bucket] = r.fs]
  /\ SetThr(t, [thr[t] EXCEPT !.pc = "g_lock", !.gres = r.out])

LruGetBaseRuns(t, n) ==
  \E oc \in [1..n -> Outcomes], perm \in Perms(n) :
    LruGetBased(t, DiskGet(fs[thr[t].bucket], thr[t].bucket, thr[t].gmiss,
                           oc, perm))

LruGetBase(t) ==
  /\ thr[t].pc = "g_base"
  /\ LruGetBaseRuns(t, Len(Missing(fs[thr[t].bucket], thr[t].gmiss)))
  /\ UNCHANGED <<gateVars, lru, mu, chanq, reaper, asked, overlap>>

\* m.Lock() before the results are installed.
LruGetLock(t) ==
  /\ thr[t].pc = "g_lock"
  /\ MuFree
  /\ mu' = [mu EXCEPT !.writer = t]
  /\ SetThr(t, [thr[t] EXCEPT !.pc = "g_install"])
  /\ UNCHANGED <<gateVars, fs, lru, chanq, reaper, asked, overlap>>

\* Every result of the base is pushed to the front and put in the bucket
\* map; m.Unlock(); lruCachedKeyGetter.get returns.
LruGetInstall(t) ==
  /\ thr[t].pc = "g_install"
  /\ lru' = Install(lru, thr[t].gbucket, thr[t].gres, 1)
  /\ mu' = [mu EXCEPT !.writer = "none"]
  /\ SetThr(t, LruGetReturn([thr[t] EXCEPT !.gout = @ \o thr[t].gres]))
  /\ UNCHANGED <<gateVars, fs, chanq, reaper, asked, overlap>>

\* b.downloaded <- newdled, which waits for room in the channel.
BGetSend(t) ==
  /\ thr[t].pc = "send"
  /\ Len(chanq) < ChanCap
  /\ chanq' = Append(chanq, thr[t].newdled)
  /\ SetThr(t, [thr[t] EXCEPT !.pc = "ret"])
  /\ UNCHANGED <<gateVars, fs, lru, mu, reaper, asked, overlap>>

\* boundedDiskCachedKeyGetter.get returns out.
BGetReturn(t) ==
  /\ thr[t].pc = "ret"
  /\ SetThr(t, IdleThread)
  /\ UNCHANGED <<gateVars, fs, lru, mu, chanq, reaper, asked, overlap>>

\* keepClean: totalDownloaded += <-b.downloaded, and the test against
\* maxBytes.
ReaperRecv ==
  /\ reaper.pc = "recv"
  /\ chanq # <<>>
  /\ chanq' = Tail(chanq)
  /\ reaper' = [reaper EXCEPT !.total = @ + Head(chanq),
                              !.pc = IF OverBudget(reaper,
                                                   reaper.total + Head(chanq))
                                       THEN "lock" ELSE "recv"]
  /\ UNCHANGED <<gateVars, fs, lru, mu, thr, asked, overlap>>

\* keepClean: b.lru.Lock().
ReaperLock ==
  /\ reaper.pc = "lock"
  /\ MuFree
  /\ mu' = [mu EXCEPT !.writer = "reaper"]
  /\ reaper' = [reaper EXCEPT !.pc = "loop"]
  /\ UNCHANGED <<gateVars, fs, lru, chanq, thr, asked, overlap>>

\* The body of keepClean's inner loop for the oldest result o: lru.remove
\* returns false without locking when lru.has is false, and then disk.remove
\* and the subtraction follow; otherwise lru.remove calls m.Lock(), which
\* keepClean itself holds, and waits there.
ReaperEvict(o) ==
  IF LruHas(lru, o.bucketName, o.keyName)
    THEN /\ reaper' = [reaper EXCEPT !.pc = "relock"]
         /\ UNCHANGED fs
    ELSE /\ reaper' = [reaper EXCEPT !.total = @ - o.bytesTransferred]
         /\ fs' = [fs EXCEPT ![o.bucketName] = DiskRemove(@, o.keyName).fs]

\* keepClean: the test of the inner loop and one iteration of it.
ReaperLoop ==
  /\ reaper.pc = "loop"
  /\ IF RoomLeft(reaper)
       THEN IF lru.list = <<>>
              THEN /\ reaper' = [reaper EXCEPT !.pc = "unlock"]
                   /\ UNCHANGED fs
              ELSE ReaperEvict(lru.nodes[lru.list[Len(lru.list)]])
       ELSE /\ reaper' = [reaper EXCEPT !.pc = "unlock"]
            /\ UNCHANGED fs
  /\ UNCHANGED <<gateVars, lru, mu, chanq, thr, asked, overlap>>

\* keepClean: b.lru.Unlock(), and back to the receive.
ReaperUnlock ==
  /\ reaper.pc = "unlock"
  /\ mu' = [mu EXCEPT !.writer = "none"]
  /\ reaper' = [reaper EXCEPT !.pc = "recv"]
  /\ UNCHANGED <<gateVars, fs, lru, chanq, thr, asked, overlap>>

NextLRU ==
  \/ \E t \in Threads : BGetStart(t)
  \/ \E t \in Threads : BGetHas(t)
  \/ \E t \in Threads : LruGetBucket(t)
  \/ \E t \in Threads : LruGetMkLock(t)
  \/ \E t \in Threads : LruGetMk(t)
  \/ \E t \in Threads : LruGetRLock(t)
  \/ \E t \in Threads : LruGetLook(t)
  \/ \E t \in Threads : LruGetBase(t)
  \/ \E t \in Threads : LruGetLock(t)
  \/ \E t \in Threads : LruGetInstall(t)
  \/ \E t \in Threads : BGetSend(t)
  \/ \E t \in Threads : BGetReturn(t)
  \/ ReaperRecv
  \/ ReaperLock
  \/ ReaperLoop
  \/ ReaperUnlock

SpecLRU == InitLRU /\ [][NextLRU]_vars

\* The same threads with keepClean(math.MinInt64).
SpecLRUMin == InitLRUMin /\ [][NextLRU]_vars

\* The bounded LRU with one caller at a time: every request is made on the
\* first thread, so that no two requests overlap.
NextLRUSeq ==
  \/ BGetStart("t1")
  \/ BGetHas("t1")
  \/ LruGetBucket("t1")
  \/ LruGetMkLock("t1")
  \/ LruGetMk("t1")
  \/ LruGetRLock("t1")
  \/ LruGetLook("t1")
  \/ LruGetBase("t1")
  \/ LruGetLock("t1")
  \/ LruGetInstall("t1")
  \/ BGetSend("t1")
  \/ BGetReturn("t1")
  \/ ReaperRecv
  \/ ReaperLock
  \/ ReaperLoop
  \/ ReaperUnlock

\* keepClean started with the largest of the budgets.
InitLRUSeq == InitLRU /\ reaper.maxBytes = MaxBudget * EntryBytes

SpecLRUSeq == InitLRUSeq /\ [][NextLRUSeq]_vars

\* -------------------------------------------- diskCachedKeyGetter.get, live

\* Concurrent gets of the disk cache over the temp-file getter, one key a
\* request, so that the base's fan-in has one result to collect.  A file is
\* an entry of inodes; content says which file a node of the tree names.

NewFile == [written |-> 0, finished |-> FALSE]

\* getKey's result when io.Copy stops with an error: set before localPath.
CopyFailedKeepsPath(k) == [CopiedResult(k) EXCEPT !.status = "copy error"]

\* getKey's result when io.Copy stops with an error.
CopyFailed(k) == FailResult(k, "copy error")

InitDisk ==
  /\ fs = [b \in Buckets |-> EmptyTree]
  /\ out = <<>>
  /\ call = NoCall
  /\ FetchIdle
  /\ LruIdle(0)
  /\ promoted = NonePromoted
  /\ DiskIdle

SetDthr(t, rec) == dthr' = [dthr EXCEPT ![t] = rec]

\* The threads that will still make a temp file.
AboutToFetch == {u \in Threads : dthr[u].pc \in {"open", "temp"}}

\* The partition of get: os.Stat of the key's path.
DiskPartitioned(t, b, k) ==
  IF DiskHas(fs[b], k)
    THEN [IdleDiskThread EXCEPT !.pc = "done", !.bucket = b, !.key = k,
                                !.result = DiskHitResult(b, k)]
    ELSE [IdleDiskThread EXCEPT !.pc = "open", !.bucket = b, !.key = k]

\* A request enters get: the hit is answered at once, the miss goes to the
\* base.
DiskGetCall(t) ==
  /\ ~crashed
  /\ dthr[t].pc = "idle"
  /\ \A u \in Threads : ThreadNo(u) < ThreadNo(t) => dthr[u].pc # "idle"
  /\ Len(inodes) + Cardinality(AboutToFetch) < MaxTemps
  /\ \E b \in Buckets, k \in Keys : SetDthr(t, DiskPartitioned(t, b, k))
  /\ UNCHANGED <<fs, out, call, fetchVars, lruVars, promoted, inodes, content>>

\* The base's result, with the bucket name tempKeyGetter.get adds.
DiskFetched(t, r) ==
  [dthr[t] EXCEPT !.pc = "promote",
                  !.base = [r EXCEPT !.bucketName = dthr[t].bucket]]

\* getKeyReader and the defer of rc.Close().
DiskOpened(t, o) ==
  IF o.rc = "nil"
    THEN /\ SetDthr(t, [dthr[t] EXCEPT !.pc = "panic"])
         /\ crashed' = TRUE
    ELSE /\ crashed' = crashed
         /\ IF o.err
              THEN SetDthr(t, DiskFetched(t, FailResult(dthr[t].key,
                                                         "open error")))
              ELSE SetDthr(t, [dthr[t] EXCEPT !.pc = "temp"])

DiskOpen(t) ==
  /\ ~crashed
  /\ dthr[t].pc = "open"
  /\ \E o \in OpenOutcomes : DiskOpened(t, o)
  /\ UNCHANGED <<fs, out, call, fetch, tasks, lruVars, promoted, inodes,
                 content>>

\* ioutil.TempFile makes a new empty file outside the cache tree.
DiskTemp(t) ==
  /\ ~crashed
  /\ dthr[t].pc = "temp"
  /\ \E ok \in BOOLEAN :
       IF ok
         THEN /\ inodes' = Append(inodes, NewFile)
              /\ SetDthr(t, [dthr[t] EXCEPT !.pc = "copy",
                                            !.tmp = Len(inodes) + 1])
         ELSE /\ inodes' = inodes
              /\ SetDthr(t, DiskFetched(t, FailResult(dthr[t].key,
                                                       "temp file error")))
  /\ UNCHANGED <<fs, out, call, fetchVars, lruVars, promoted, content>>

\* io.Copy writes the first part of the object, or fails.
DiskCopyPart(t) ==
  /\ ~crashed
  /\ dthr[t].pc = "copy"
  /\ \E ok \in BOOLEAN :
       IF ok
         THEN /\ inodes' = [inodes EXCEPT ![dthr[t].tmp].written =
                              EntryBytes \div 2]
              /\ SetDthr(t, [dthr[t] EXCEPT !.pc = "copy2"])
         ELSE /\ inodes' = inodes
              /\ SetDthr(t, DiskFetched(t, CopyFailed(dthr[t].key)))
  /\ UNCHANGED <<fs, out, call, fetchVars, lruVars, promoted, content>>

\* io.Copy writes the rest and getKey sets localPath, or the copy fails and
\* leaves the temp file as it is.
DiskCopyRest(t) ==
  /\ ~crashed
  /\ dthr[t].pc = "copy2"
  /\ \E ok \in BOOLEAN :
       IF ok
         THEN /\ inodes' = [inodes EXCEPT ![dthr[t].tmp] =
                              [written |-> EntryBytes, finished |-> TRUE]]
              /\ SetDthr(t, DiskFetched(t, CopiedResult(dthr[t].key)))
         ELSE /\ inodes' = inodes
              /\ SetDthr(t, DiskFetched(t, CopyFailed(dthr[t].key)))
  /\ UNCHANGED <<fs, out, call, fetchVars, lruVars, promoted, content>>

\* get appends what moveToCache answered and is about to return.
DiskAnswered(t, g, err) ==
  [dthr[t] EXCEPT !.pc = "done",
                  !.result = CachedResult([g |-> g, err |-> err])]

\* moveToCache up to os.MkdirAll of the directory of the key's path.
DiskMkdired(t, mk) ==
  /\ fs' = [fs EXCEPT ![dthr[t].bucket] = mk.fs]
  /\ IF mk.ok
       THEN SetDthr(t, [dthr[t] EXCEPT !.pc = "rename"])
       ELSE SetDthr(t, DiskAnswered(t, dthr[t].base,
                         "couldn't create directory to move getResult to"))

DiskMkdir(t) ==
  /\ ~crashed
  /\ dthr[t].pc = "promote"
  /\ IF dthr[t].base.localPath = NilPath
       THEN /\ fs' = fs
            /\ SetDthr(t, DiskAnswered(t, dthr[t].base,
                                       "no localPath for given getResult"))
       ELSE DiskMkdired(t, MkdirAll(fs[dthr[t].bucket], ParentOf(dthr[t].key)))
  /\ UNCHANGED <<out, call, fetchVars, lruVars, promoted, inodes, content>>

\* os.Rename of the temp file onto the key's path: on success the node names
\* the temp file's inode, on failure nothing changes.
DiskRenamed(t, rn, io) ==
  /\ fs' = [fs EXCEPT ![dthr[t].bucket] = rn.fs]
  /\ IF rn.ok
       THEN /\ content' = [content EXCEPT ![dthr[t].bucket][dthr[t].key] =
                             dthr[t].tmp]
            /\ SetDthr(t, [DiskAnswered(t,
                             [dthr[t].base EXCEPT !.localPath =
                                <<PathFor(dthr[t].bucket, dthr[t].key)>>], "")
                             EXCEPT !.io = io])
       ELSE /\ content' = content
            /\ SetDthr(t, [DiskAnswered(t, dthr[t].base, "rename failed")
                             EXCEPT !.io = io])

DiskRename(t) ==
  /\ ~crashed
  /\ dthr[t].pc = "rename"
  /\ \E io \in BOOLEAN :
       DiskRenamed(t, OsRename(fs[dthr[t].bucket], dthr[t].key, io), io)
  /\ UNCHANGED <<out, call, fetchVars, lruVars, promoted, inodes>>

\* get returns out to its caller.
DiskGetReturn(t) ==
  /\ ~crashed
  /\ dthr[t].pc = "done"
  /\ SetDthr(t, IdleDiskThread)
  /\ UNCHANGED <<fs, out, call, fetchVars, lruVars, promoted, inodes, content>>

NextDisk ==
  \/ \E t \in Threads : DiskGetCall(t)
  \/ \E t \in Threads : DiskOpen(t)
  \/ \E t \in Threads : DiskTemp(t)
  \/ \E t \in Threads : DiskCopyPart(t)
  \/ \E t \in Threads : DiskCopyRest(t)
  \/ \E t \in Threads : DiskMkdir(t)
  \/ \E t \in Threads : DiskRename(t)
  \/ \E t \in Threads : DiskGetReturn(t)

SpecDisk == InitDisk /\ [][NextDisk]_vars

\* ----------------------------------------------------------------- claims

KeyNames(rs) == [i \in 1..Len(rs) |-> rs[i].keyName]

SameMultiset(s, t) ==
  /\ Len(s) = Len(t)
  /\ \A x \in Range(s) \cup Range(t) : Count(s, x) = Count(t, x)

RECURSIVE Flatten(_)
Flatten(ss) == IF ss = <<>> THEN <<>> ELSE Head(ss) \o Flatten(Tail(ss))

\* The keys the last call handed to the base getter, over all its base calls.
BaseKeys == Flatten(call.base)

Fresh == [evict |-> FALSE, err |-> FALSE]
Stale == [evict |-> TRUE, err |-> FALSE]

\* The last call was Get(bucket, [k], mutable = true) with k a cached file.
MutableGetOfCached ==
  /\ call.op = "Get"
  /\ call.mutable
  /\ Len(call.keys) = 1
  /\ call.pre[call.keys[1]] = "file"

\* The results of the last call that carry key name k.
ResultsFor(k) == {i \in 1..Len(out) : out[i].keyName = k}

\* C1: diskCachedKeyGetter.get(bucket, K) returns exactly |K| results, and
\* the multiset of their key names is the multiset of K, whatever the cache
\* holds and whatever the base answers for the keys it is given.
C1_DiskGetComplete ==
  call.op = "disk.get" => SameMultiset(KeyNames(out), call.keys)

\* A disk get of several keys, some found on disk and some fetched.
C1_Witness ==
  /\ call.op = "disk.get"
  /\ Len(call.keys) >= 2
  /\ \E i \in 1..Len(out) : out[i].status = "disk cache hit"
  /\ Len(BaseKeys) >= 1
  /\ SameMultiset(KeyNames(out), call.keys)

\* C2: EvictingMutableKeyGetter.Get(bucket, K, mutable) returns exactly one
\* result per requested key: |K| results, whose key names are those of K.
C2_GateComplete ==
  call.op = "Get" => SameMultiset(KeyNames(out), call.keys)

\* C3: for a cached key the oracle calls fresh, (false, nil),
\* Get(bucket, [key], true) removes nothing, does not call the base, and
\* returns the cached result.
C3_FreshKept ==
  (MutableGetOfCached /\ call.ans[1] = Fresh)
    => /\ call.removed = <<>>
       /\ call.base = <<>>
       /\ \E i \in 1..Len(out) :
            out[i] = DiskHitResult(call.bucket, call.keys[1])

\* C4: for a cached key the oracle calls stale, (true, nil),
\* Get(bucket, [key], true) removes the entry, then hands the key to the base
\* exactly once, and the one result it returns for the key is the one made
\* from the base's fresh result; when that fetch fails the entry is gone.
C4_StaleRefetched ==
  (MutableGetOfCached /\ call.ans[1] = Stale)
    => LET k == call.keys[1]
       IN /\ call.removed = <<k>>
          /\ call.base = << <<k>> >>
          /\ Len(call.baseOut) = 1
          /\ \E i \in 1..Len(out) :
               /\ ResultsFor(k) = {i}
               /\ out[i].status # "disk cache hit"
               /\ out[i].bytesTransferred = call.baseOut[1].bytesTransferred
               /\ out[i].md5 = call.baseOut[1].md5
               /\ out[i].localPath # NilPath
                    => /\ out[i].status = call.baseOut[1].status
                       /\ out[i].localPath = <<PathFor(call.bucket, k)>>
                       /\ fs[call.bucket][k] = "file"
               /\ out[i].localPath = NilPath => fs[call.bucket][k] = "none"

\* A stale cached key was removed, fetched again and promoted.
C4_Witness ==
  /\ MutableGetOfCached
  /\ call.ans[1] = Stale
  /\ call.removed = call.keys
  /\ call.base = <<call.keys>>
  /\ \E i \in 1..Len(out) :
       /\ out[i].keyName = call.keys[1]
       /\ out[i].status = "cache miss, transferred " \o ToString(EntryBytes) \o " bytes"
       /\ out[i].localPath = <<PathFor(call.bucket, call.keys[1])>>

\* C5: when the oracle fails for a cached key, whatever boolean comes with
\* the error, Get(bucket, [key], true) keeps the entry: nothing is removed,
\* the base is not called, the cached result is returned.
C5_OracleErrorKept ==
  (MutableGetOfCached /\ call.ans[1].err)
    => /\ call.removed = <<>>
       /\ call.base = <<>>
       /\ \E i \in 1..Len(out) :
            out[i] = DiskHitResult(call.bucket, call.keys[1])

\* C6: Get(bucket, K, false) never asks the oracle and removes nothing: every
\* node of the cache tree is still there after the call. The base is handed
\* only keys the cache did not have when the call began, so a call whose
\* keys are all cached makes no base call.
C6_ImmutableNeverEvicts ==
  (call.op = "Get" /\ ~call.mutable)
    => /\ call.asked = <<>>
       /\ call.removed = <<>>
       /\ \A n \in Nodes : call.pre[n] # "none" => fs[call.bucket][n] = call.pre[n]
       /\ \A i \in 1..Len(BaseKeys) : ~DiskHas(call.pre, BaseKeys[i])
       /\ (\A i \in 1..Len(call.keys) : DiskHas(call.pre, call.keys[i]))
            => call.base = <<>>

\* An immutable Get of a cached key and an absent one: the base is handed
\* the absent key alone.
C6_Witness ==
  /\ call.op = "Get"
  /\ ~call.mutable
  /\ Len(call.keys) = 2
  /\ call.pre[call.keys[1]] = "file"
  /\ call.pre[call.keys[2]] = "none"
  /\ call.base = << <<call.keys[2]>> >>
  /\ call.removed = <<>>

\* The results the goroutines of the running get produced, as get hands them
\* on.
TaskResults ==
  [i \in 1..Len(tasks) |-> [tasks[i].result EXCEPT !.bucketName = fetch.bucket]]

\* Opening or streaming failed for exactly one key of the batch, and nothing
\* failed for the others.
OneFailure ==
  \E i \in 1..Len(tasks) :
    /\ tasks[i].fail \in {"open", "copy"}
    /\ \A j \in 1..Len(tasks) \ {i} : tasks[j].fail = ""

\* C10: when opening or streaming the origin object fails for one key of a
\* batch, the process does not crash, and the get returns one result per
\* key: the failing key's has no local path and the failure text as status,
\* every other key's has a local path.
C10_FailureIsolated ==
  OneFailure =>
    /\ ~crashed
    /\ fetch.phase = "returned" =>
         /\ Len(fetch.out) = Len(fetch.keys)
         /\ SameMultiset(fetch.out, TaskResults)
         /\ \A i \in 1..Len(tasks) :
              IF tasks[i].fail = ""
                THEN tasks[i].result.localPath # NilPath
                ELSE /\ tasks[i].result.localPath = NilPath
                     /\ tasks[i].result.status \in {"open error", "copy error"}

\* The reaper has consumed every delta sent and waits for the next one.
ReaperQuiescent == reaper.pc = "recv" /\ chanq = <<>>

\* The LRU index holds an entry: the list has an element and a bucket map a
\* key.
IndexNonEmpty ==
  /\ lru.list # <<>>
  /\ \E b \in Buckets, k \in MapKeys : LruHas(lru, b, k)

\* C7: whenever the reaper has consumed all deltas sent and waits for the
\* next one, its total is at most the budget plus the bytes of the largest
\* entry, provided the index is non-empty whenever the total exceeds the
\* budget.
C7_BudgetContained ==
  (ReaperQuiescent /\ (reaper.total > reaper.maxBytes => IndexNonEmpty))
    => reaper.total <= reaper.maxBytes + EntryBytes

\* The i-th key installed in the LRU.
Installed(i) == lru.nodes[i].keyName

\* Budget of two objects; three requests, one after the other, each for a
\* different key and each fetching EntryBytes into the cache; every request
\* has returned and the reaper has consumed every delta.
ThreeFetchedInSequence ==
  /\ reaper.maxBytes = 2 * EntryBytes
  /\ ~overlap
  /\ asked = 3
  /\ \A t \in Threads : thr[t].pc = "idle"
  /\ ReaperQuiescent
  /\ Len(lru.nodes) = 3
  /\ Cardinality({Installed(i) : i \in 1..3}) = 3
  /\ \A i \in 1..3 : /\ lru.nodes[i].bytesTransferred = EntryBytes
                      /\ lru.nodes[i].localPath # NilPath

AbsentFromBoth(b, k) == ~LruHas(lru, b, k) /\ ~DiskHas(fs[b], k)

PresentInBoth(b, k) == LruHas(lru, b, k) /\ DiskHas(fs[b], k)

\* C8: with a budget of 10 and three 5-byte keys k1, k2, k3 fetched in
\* sequence, at reaper quiescence exactly one of k1 and k2 is absent from
\* both the LRU index and the disk cache, and k3 is present in both.
C8_OldestEvicted ==
  ThreeFetchedInSequence =>
    \A b \in Buckets :
      /\ AbsentFromBoth(b, Installed(1)) # AbsentFromBoth(b, Installed(2))
      /\ PresentInBoth(b, Installed(3))

\* keepClean never gets into the body of its inner loop: no element leaves
\* the list, the total never goes down, and lru.remove is never called.
ReaperNeverEvicts ==
  /\ reaper.pc # "relock"
  /\ Len(lru.list) = Len(lru.nodes)
  /\ reaper.pc = "loop" => reaper.maxBytes - reaper.total < 0

\* C11: after a get that moved (bucket, key) into the disk cache, a later
\* disk get of the key, no remove of it having been called in between,
\* returns for it the same local path as that get, with 0 bytes transferred
\* and the status "disk cache hit".
C11_SecondGetSamePath ==
  [][(call.op = "none" /\ call'.op = "disk.get") =>
       \A k \in Range(call'.keys) :
         promoted[call'.bucket][k] # NilPath =>
           /\ \E i \in 1..Len(out') : out'[i].keyName = k
           /\ \A i \in 1..Len(out') :
                out'[i].keyName = k =>
                  /\ out'[i].localPath = promoted[call'.bucket][k]
                  /\ out'[i].bytesTransferred = 0
                  /\ out'[i].status = "disk cache hit"]_vars

\* A disk get has returned a hit for a key that an earlier get had moved
\* into the cache.
C11_Witness ==
  /\ call.op = "disk.get"
  /\ \E i \in 1..Len(out) :
       /\ out[i].status = "disk cache hit"
       /\ call.pre[out[i].keyName] = "file"
       /\ promoted[call.bucket][out[i].keyName] = out[i].localPath

\* C12: a disk get hands to the base getter, in at most one base call,
\* exactly the keys for which has was false at the partition, as often as
\* they were asked for; a key present on disk is never handed to the base,
\* and a get whose keys are all present makes no base call.
C12_BaseGetsMissing ==
  call.op = "disk.get" =>
    /\ Len(call.base) <= 1
    /\ Range(BaseKeys) \subseteq Range(call.keys)
    /\ \A k \in Range(call.keys) :
         Count(BaseKeys, k) =
           IF DiskHas(call.pre, k) THEN 0 ELSE Count(call.keys, k)
    /\ (\A k \in Range(call.keys) : DiskHas(call.pre, k)) => call.base = <<>>

\* A disk get of two keys, one on disk and one not, has called the base for
\* the one that was not.
C12_Witness ==
  /\ call.op = "disk.get"
  /\ Len(call.keys) = 2
  /\ \E k \in Range(call.keys) : DiskHas(call.pre, k)
  /\ Len(call.base) = 1
  /\ Len(BaseKeys) = 1
  /\ ~DiskHas(call.pre, BaseKeys[1])

\* C13: boundedDiskCachedKeyGetter.get(bucket, K) returns exactly |K|
\* results whose key names are, as a multiset, those of K, and it hands to
\* lruCachedKeyGetter.get, and so to the base, only key names that occur
\* in K.
C13_BoundedGetComplete ==
  \A t \in Threads :
    /\ Range(thr[t].gk) \subseteq Range(thr[t].keys)
    /\ Range(thr[t].gmiss) \subseteq Range(thr[t].keys)
    /\ thr[t].pc = "ret" => SameMultiset(KeyNames(thr[t].out), thr[t].keys)

\* C14: tempKeyGetter.get(bucket, K) returns a list as long as K whose i-th
\* result is the result for the i-th key of K, whatever the interleaving of
\* the per-key goroutines.
C14_InputOrder ==
  fetch.phase = "returned" =>
    /\ Len(fetch.out) = Len(fetch.keys)
    /\ \A i \in 1..Len(fetch.out) : fetch.out[i] = TaskResults[i]

\* C14, amended: tempKeyGetter.get(bucket, K) returns a list as long as K
\* that holds the result of every per-key goroutine exactly once, in the
\* order the results arrived, which need not be the order of K.
C14_OneResultPerKey ==
  fetch.phase = "returned" =>
    /\ Len(fetch.out) = Len(fetch.keys)
    /\ \E p \in Perms(Len(fetch.keys)) :
         \A i \in 1..Len(fetch.out) : fetch.out[i] = TaskResults[p[i]]

\* A get of two different keys has returned the second key's result first.
C14_Witness ==
  /\ fetch.phase = "returned"
  /\ Len(fetch.keys) = 2
  /\ fetch.keys[1] # fetch.keys[2]
  /\ fetch.out[1].keyName = fetch.keys[2]
  /\ fetch.out[2].keyName = fetch.keys[1]

\* The error texts of moveToCache.
PromotionErrors ==
  {"no localPath for given getResult",
   "couldn't create directory to move getResult to", "rename failed"}

\* The status s carries the text t: it is t, or t joined with the text of a
\* promotion error.
Carries(s, t) ==
  \/ s = t
  \/ \E e \in PromotionErrors : s = e \o ": " \o t \/ s = t \o ": " \o e

\* C15: when the base returns a result without a local path, its status
\* holding the origin's failure text, the disk get returns for that key a
\* result without a local path whose status still carries that text.
C15_OriginTextKept ==
  call.op = "disk.get" =>
    \A i \in 1..Len(call.baseOut) :
      call.baseOut[i].localPath = NilPath =>
        \E j \in 1..Len(out) :
          /\ out[j].keyName = call.baseOut[i].keyName
          /\ out[j].localPath = NilPath
          /\ Carries(out[j].status, call.baseOut[i].status)


\* The file i holds the whole object and its copy has ended without error.
CompleteFile(i) ==
  /\ i \in 1..Len(inodes)
  /\ inodes[i].finished
  /\ inodes[i].written = EntryBytes

\* A get whose promotion ended with an error in this step.
PromotionFails(t) ==
  /\ dthr[t].pc \in {"promote", "rename"}
  /\ dthr'[t].pc = "done"
  /\ dthr'[t].result.localPath = NilPath

\* C16: in every reachable state, also in the middle of a fetch or of a
\* failed or interrupted promotion, a file at a canonical path is a complete
\* copy of a finished fetch, and a promotion that fails leaves the canonical
\* path of its key as it was.
C16_AtomicPromotion ==
  /\ [](\A b \in Buckets, k \in Keys :
          fs[b][k] = "file" => CompleteFile(content[b][k]))
  /\ [][\A t \in Threads :
          PromotionFails(t) =>
            /\ fs'[dthr[t].bucket][dthr[t].key] = fs[dthr[t].bucket][dthr[t].key]
            /\ content'[dthr[t].bucket][dthr[t].key] =
                 content[dthr[t].bucket][dthr[t].key]]_vars

\* A promotion has failed over a file an earlier promotion put at the path,
\* while a partly written temp file exists.
C16_Witness ==
  /\ \E t \in Threads :
       /\ dthr[t].pc = "done"
       /\ dthr[t].base.localPath # NilPath
       /\ dthr[t].result.localPath = NilPath
       /\ fs[dthr[t].bucket][dthr[t].key] = "file"
       /\ CompleteFile(content[dthr[t].bucket][dthr[t].key])
       /\ content[dthr[t].bucket][dthr[t].key] # dthr[t].tmp
  /\ \E i \in 1..Len(inodes) :
       inodes[i].written > 0 /\ inodes[i].written < EntryBytes


\* Thread t is about to return from a get that found its key missing, fetched
\* it into a temp file, and whose rename the disk did not refuse.
FetchedAndMoved(t) ==
  /\ dthr[t].pc = "done"
  /\ dthr[t].tmp # 0
  /\ dthr[t].base.localPath # NilPath
  /\ dthr[t].io

\* Two gets of the same absent key have run at the same time.
SameKeyTwice(t, u) ==
  /\ ThreadNo(t) < ThreadNo(u)
  /\ FetchedAndMoved(t)
  /\ FetchedAndMoved(u)
  /\ dthr[t].bucket = dthr[u].bucket
  /\ dthr[t].key = dthr[u].key

\* The result t returns is the base's result with the canonical path.
ReturnsCanonical(t) ==
  dthr[t].result =
    [dthr[t].base EXCEPT !.localPath = <<PathFor(dthr[t].bucket, dthr[t].key)>>]

C17_PassReleases ==
  mu.writer = "reaper" => ENABLED (ReaperLoop \/ ReaperUnlock)


\* The positions of a request thread whose next step reads the index:
\* lru.has, m.cache[bucketName], and bucket[keyName] of the lookup loop.
Lookups == {"has", "g_bucket", "g_look"}

\* Thread t holds the RWMutex, for writing or for reading.
HoldsLock(t) == mu.writer = t \/ t \in mu.readers

\* C18: every change of the recency list or of the index maps is made with
\* the write lock held, and every lookup by a thread that holds at least the
\* read lock, so that no two threads change the LRU state at the same time
\* and none reads it while another changes it.
C18_WriterExclusive ==
  [][/\ lru' # lru => mu.writer # "none"
     /\ \A t \in Threads :
          (thr[t].pc \in Lookups /\ thr'[t] # thr[t]) => HoldsLock(t)]_vars

\* Changes of the LRU state alone: each is made with the write lock held.
MutationsLocked == [][lru' # lru => mu.writer # "none"]_vars


\* The (bucket, key) pairs the LRU index holds.
IndexEntries == {e \in Buckets \X MapKeys : LruHas(lru, e[1], e[2])}

\* The bytesTransferred of the list element the index holds for the pair e.
EntryBytesOf(e) == lru.nodes[lru.maps[lru.cache[e[1]]][e[2]]].bytesTransferred

RECURSIVE BytesOfEntries(_)
BytesOfEntries(S) ==
  IF S = {} THEN 0
  ELSE EntryBytesOf(CHOOSE e \in S : TRUE)
         + BytesOfEntries(S \ {CHOOSE e \in S : TRUE})

\* No request is inside boundedDiskCachedKeyGetter.get.
AllReturned == \A t \in Threads : thr[t].pc = "idle"

\* C19: whenever the reaper is quiescent (every delta sent is consumed, no
\* eviction is going on), and no request is under way, its total equals the
\* sum of the bytesTransferred of the entries in the LRU index.
C19_TotalMatchesIndex ==
  (ReaperQuiescent /\ AllReturned) =>
    reaper.total = BytesOfEntries(IndexEntries)


\* Thread t is at the lookup of a key the index held when its call of
\* lruCachedKeyGetter.get began.
LooksUpIndexed(t) ==
  /\ thr[t].pc = "g_look"
  /\ thr'[t] # thr[t]
  /\ thr[t].gk[thr[t].gi] \in thr[t].gidx

\* The list element the thread's bucket map holds for the key it looks up.
LookedUp(t) == lru.maps[thr[t].gbucket][thr[t].gk[thr[t].gi]]

\* The results of the call so far, with the stored result of element id
\* appended as a cache hit.
WithHit(t, id) ==
  Append(thr[t].gout, [lru.nodes[id] EXCEPT !.status = "cache_hit"])

\* What the lookup of a key that is a hit leaves behind: the element id is
\* the front of the list, the call's results end with the stored result as
\* "cache_hit", and the key is not among those handed to the base.
HitDone(t, id) ==
  /\ id # 0
  /\ lru'.list # <<>>
  /\ Head(lru'.list) = id
  /\ lru.nodes[id].keyName = thr[t].gk[thr[t].gi]
  /\ IF thr'[t].pc \in {"g_rlock", "g_base"}
       THEN /\ thr'[t].gout = WithHit(t, id)
            /\ thr'[t].gmiss = thr[t].gmiss
       ELSE thr'[t].out = thr[t].out \o WithHit(t, id)

\* C21: when lruCachedKeyGetter.get is called for a key that is in the
\* index, the key's node becomes the front of the recency list, the result
\* returned for it is the stored one with status "cache_hit" and the stored
\* local path, and the base getter is not called for the key.
C21_ReadHit ==
  [][\A t \in Threads : LooksUpIndexed(t) => HitDone(t, LookedUp(t))]_vars

\* A get has returned a cache hit for a key whose element was moved to the
\* front of a list of two elements.
C21_Witness ==
  \E t \in Threads :
    /\ thr[t].pc = "send"
    /\ Len(lru.list) > 1
    /\ thr[t].out # <<>>
    /\ thr[t].out[Len(thr[t].out)].status = "cache_hit"
    /\ thr[t].out[Len(thr[t].out)].localPath # NilPath
    /\ lru.nodes[Head(lru.list)].keyName = thr[t].out[Len(thr[t].out)].keyName
    /\ Head(lru.list) < Len(lru.nodes)


\* get has returned with one result from each task and no task is left
\* waiting to send.
FanInComplete ==
  fetch.phase = "returned" =>
    /\ Len(tasks) = Len(fetch.keys)
    /\ Len(fetch.out) = Len(fetch.keys)
    /\ \A i \in 1..Len(tasks) : tasks[i].pc = "done"

\* C22: tempKeyGetter.get starts one task per key, receives exactly |K|
\* results on the inbox and returns only after all of them arrived; under
\* fair scheduling the call returns, and no task is left blocked on the inbox.
C22_FanInTerminates ==
  /\ []FanInComplete
  /\ (fetch.phase = "collect") ~> (fetch.phase = "returned")


\* The list element the index holds for the pair e.
ElementOf(e) == lru.maps[lru.cache[e[1]]][e[2]]

\* The (bucket, key) of the stored result of list element id.
PairOf(id) == <<lru.nodes[id].bucketName, lru.nodes[id].keyName>>

\* C23: the recency list and the index map stay in bijection: every node of
\* the list is the value of exactly one (bucket, key) entry of the index,
\* every entry points to a node of the list, and no key has two nodes.
C23_ListIndexBijection ==
  /\ \A i \in 1..Len(lru.list) :
       Cardinality({e \in IndexEntries : ElementOf(e) = lru.list[i]}) = 1
  /\ \A e \in IndexEntries : ElementOf(e) \in Range(lru.list)
  /\ \A i, j \in 1..Len(lru.list) :
       PairOf(lru.list[i]) = PairOf(lru.list[j]) => i = j


\* C24: every entry of the LRU index has a non-nil local path whose file is
\* in the disk cache; a result whose fetch or promotion failed is not
\* installed, so that a later get of the key calls the base again.
C24_IndexMaterialized ==
  \A e \in IndexEntries :
    /\ lru.nodes[ElementOf(e)].localPath # NilPath
    /\ DiskHas(fs[e[1]], e[2])

\* A get returns, as a cache hit, a stored result without a local path.
StoredFailureHit ==
  \E t \in Threads : \E i \in 1..Len(thr[t].out) :
    /\ thr[t].out[i].status = "cache_hit"
    /\ thr[t].out[i].localPath = NilPath


\* The cached result Get hands to ShouldEvict for its one key.
CachedOfGet == DiskGet(call.pre, call.bucket, call.keys, <<>>, <<>>).out[1]

\* md5For's answer for an object the origin has not changed since it was
\* fetched and whose listing succeeds.
UnchangedDigest == Md5For(TRUE, ETag(ObjectSum))

\* The last call was Get(bucket, [k], true) on a cached file, the oracle
\* being md5ShouldEvicter and the origin's object being unchanged.
DigestGetOfUnchanged ==
  /\ MutableGetOfCached
  /\ call.ans[1] = Md5ShouldEvict(CachedOfGet, UnchangedDigest)

\* C25: with md5ShouldEvicter over the disk cache and an origin object that
\* has not changed since it was fetched, Get(bucket, [key], true) finds the
\* cached result's digest equal to the origin's, the oracle calls it fresh,
\* and the key is neither removed nor fetched again, also when the cached
\* result is a disk cache hit.
C25_UnchangedKept ==
  DigestGetOfUnchanged =>
    /\ CachedOfGet.md5 = UnchangedDigest.md5
    /\ call.ans[1] = Fresh
    /\ call.removed = <<>>
    /\ call.base = <<>>

====
